---- MODULE Spec2Model ----
(***************************************************************************)
(* Model of import_dir: ExternalPathFinder (the meta-path finder that      *)
(* resolves names under a namespace prefix) and PrefixedImportSourceLoader *)
(* (path resolution and rewriting of the import statements of a source     *)
(* file), together with the disk they read and write.                      *)
(*                                                                         *)
(* Python strings are sequences of one-character strings, so startswith,   *)
(* endswith, split and the concatenations of the code are computed on      *)
(* characters.  The text of a source file is a sequence of statements      *)
(* whose dotted names and aliases are such strings; RedBaron's parse       *)
(* splits a dotted name into its NameNodes and dumps joins them again.     *)
(***************************************************************************)
EXTENDS Integers, Sequences, FiniteSets, TLC

VARIABLES
    finder,            \* the ExternalPathFinder's fields name, prefix, base_path, rewrite
    local_submodules,  \* ExternalPathFinder.local_submodules: root -> set of names
    disk,              \* the filesystem: path -> [kind, data]
    listed,            \* history: root -> number of os.listdir calls that returned for it
    pending,           \* the fullnames the host's import step asks for
    pc,                \* position of the import in progress
    fullname,          \* the name being imported
    loader,            \* the PrefixedImportSourceLoader bound to the spec in hand
    result,            \* what the last call returned or raised
    source,            \* the text get_data read from the file it was given
    namespace          \* names bound by the body of the last module executed

vars == <<finder, local_submodules, disk, listed, pending, pc, fullname,
          loader, result, source, namespace>>

-----------------------------------------------------------------------------
(* Python str operations, on sequences of characters *)

empty == <<>>

startswith(s, p) ==
    /\ Len(p) <= Len(s)
    /\ SubSeq(s, 1, Len(p)) = p

endswith(s, p) ==
    /\ Len(p) <= Len(s)
    /\ SubSeq(s, Len(s) - Len(p) + 1, Len(s)) = p

\* s[n:]
DropFirst(s, n) == SubSeq(s, n + 1, Len(s))

\* s[:-n]
DropLast(s, n) == SubSeq(s, 1, Len(s) - n)

\* position of the first c in s, 0 when there is none
RECURSIVE IndexOf(_, _, _)
IndexOf(s, c, i) ==
    IF i > Len(s) THEN 0
    ELSE IF s[i] = c THEN i
    ELSE IndexOf(s, c, i + 1)

\* s.split(c): the pieces between the occurrences of c, empty pieces kept
RECURSIVE split(_, _)
split(s, c) ==
    LET i == IndexOf(s, c, 1)
    IN  IF i = 0 THEN <<s>>
        ELSE <<SubSeq(s, 1, i - 1)>> \o split(DropFirst(s, i), c)

\* c.join(parts)
RECURSIVE join(_, _)
join(c, parts) ==
    IF Len(parts) = 0 THEN empty
    ELSE IF Len(parts) = 1 THEN parts[1]
    ELSE parts[1] \o <<c>> \o join(c, Tail(parts))

py == <<".", "p", "y">>

init_py == <<"_", "_", "i", "n", "i", "t", "_", "_">> \o py

-----------------------------------------------------------------------------
(* os.path and os.listdir over the disk.  A path of the disk is stored      *)
(* without a trailing separator; a node is a directory or a file with text. *)

Dir == [kind |-> "dir", data |-> <<>>]

File(text) == [kind |-> "file", data |-> text]

\* a path with one trailing separator dropped
Norm(p) == IF endswith(p, <<"/">>) /\ Len(p) > 1 THEN DropLast(p, 1) ELSE p

\* os.path.join(a, b)
os_path_join2(a, b) ==
    IF startswith(b, <<"/">>) THEN b
    ELSE IF a = empty \/ endswith(a, <<"/">>) THEN a \o b
    ELSE a \o <<"/">> \o b

\* os.path.join(a, *parts)
RECURSIVE os_path_join(_, _)
os_path_join(a, parts) ==
    IF Len(parts) = 0 THEN a
    ELSE os_path_join(os_path_join2(a, parts[1]), Tail(parts))

\* os.path.dirname(p)
RECURSIVE os_path_dirname(_)
os_path_dirname(p) ==
    IF p = empty THEN empty
    ELSE IF p[Len(p)] = "/" THEN (IF Len(p) = 1 THEN p ELSE DropLast(p, 1))
    ELSE os_path_dirname(DropLast(p, 1))

os_path_isdir(d, p) ==
    /\ Norm(p) \in DOMAIN d
    /\ d[Norm(p)].kind = "dir"

\* a path with a trailing separator exists only as a directory
os_path_exists(d, p) ==
    /\ Norm(p) \in DOMAIN d
    /\ (endswith(p, <<"/">>) => d[Norm(p)].kind = "dir")

\* the entries directly inside directory p
Entries(d, p) ==
    LET pre == Norm(p) \o <<"/">>
    IN  { DropFirst(q, Len(pre)) :
            q \in { q \in DOMAIN d : /\ startswith(q, pre)
                                     /\ Len(q) > Len(pre)
                                     /\ IndexOf(DropFirst(q, Len(pre)), "/", 1) = 0 } }

\* os.listdir(p): the entries, or the OSError it raises
os_listdir(d, p) ==
    IF Norm(p) \notin DOMAIN d
    THEN [raises |-> "FileNotFoundError", value |-> {}]
    ELSE IF d[Norm(p)].kind # "dir"
    THEN [raises |-> "NotADirectoryError", value |-> {}]
    ELSE [raises |-> "", value |-> Entries(d, p)]

-----------------------------------------------------------------------------
(* ExternalPathFinder *)

\* a finder whose prefix lacks the separator
ExternalPathFinder_bare(name, base_path, rewrite) ==
    [name      |-> name,
     prefix    |-> name,
     base_path |-> IF endswith(base_path, py)
                   THEN os_path_dirname(base_path)
                   ELSE base_path,
     rewrite   |-> rewrite]

\* ExternalPathFinder.__init__
ExternalPathFinder(name, base_path, rewrite) ==
    [name      |-> name,
     prefix    |-> name \o <<".">>,
     base_path |-> IF endswith(base_path, py)
                   THEN os_path_dirname(base_path)
                   ELSE base_path,
     rewrite   |-> rewrite]

\* PrefixedImportSourceLoader.__init__
PrefixedImportSourceLoader(local_globals, ext_prefix, whole_prefix, base_path, rewrite) ==
    [ext_prefix    |-> ext_prefix,
     whole_prefix  |-> whole_prefix,
     base_path     |-> base_path,
     local_globals |-> local_globals,
     rewrite       |-> rewrite]

NoLoader == PrefixedImportSourceLoader({}, empty, empty, empty, FALSE)

\* components = fullname[len(self.prefix):].split(".")
components_of(f, prefix) == split(DropFirst(f, Len(prefix)), ".")

\* the set find_spec stores for a root: the subdirectories of path and its
\* .py files with the extension stripped
local_names(d, path, items) ==
    { IF ~os_path_isdir(d, os_path_join2(path, item)) /\ endswith(item, py)
      THEN DropLast(item, 3)
      ELSE item :
        item \in { item \in items :
                     \/ os_path_isdir(d, os_path_join2(path, item))
                     \/ endswith(item, py) } }

\* a finder that lists the directory on every call
never_cached(root, cache) == FALSE

\* whether find_spec takes the cached set of root
cached(root, cache) == root \in DOMAIN cache

\* the cache after find_spec has stored the names of root
store(cache, root, names) == (root :> names) @@ cache

\* ExternalPathFinder.find_spec: what it returns or raises, and the cache and
\* the count of directory listings it leaves
find_spec_result(fd, cache, counts, d, f) ==
    IF ~startswith(f, fd.prefix)
    THEN [kind |-> "none", value |-> empty, cache |-> cache, listed |-> counts]
    ELSE
      LET components == components_of(f, fd.prefix)
          root == components[1]
          path == os_path_join2(fd.base_path, root)
          ls   == os_listdir(d, path)
          new  == IF cached(root, cache) THEN cache
                  ELSE store(cache, root, local_names(d, path, ls.value))
          cnt  == IF cached(root, cache) THEN counts
                  ELSE (root :> (IF root \in DOMAIN counts THEN counts[root] + 1 ELSE 1))
                       @@ counts
      IN  IF ~cached(root, cache) /\ ls.raises # ""
          THEN [kind |-> "raise", value |-> ls.raises, cache |-> cache, listed |-> counts]
          ELSE [kind   |-> "spec",
                value  |-> [name       |-> f,
                            is_package |-> TRUE,
                            loader     |-> PrefixedImportSourceLoader(
                                               new[root], fd.prefix,
                                               fd.prefix \o root \o <<".">>,
                                               fd.base_path, fd.rewrite)],
                cache  |-> new,
                listed |-> cnt]

-----------------------------------------------------------------------------
(* PrefixedImportSourceLoader.get_filename *)

\* os.path.join(self.base_path, *fullname[len(self.ext_prefix):].split("."))
candidate(l, f) == os_path_join(l.base_path, components_of(f, l.ext_prefix))

\* a loader that prefers the source file to the directory of the same name
located_file_first(l, f, d) ==
    LET path == candidate(l, f)
        init == os_path_join2(path, init_py)
    IN  IF os_path_exists(d, path \o py) THEN path \o py
        ELSE IF os_path_isdir(d, path)
        THEN (IF os_path_exists(d, init) THEN init ELSE path \o <<"/">>)
        ELSE path \o py

\* the path get_filename settles on before it checks that it exists
located(l, f, d) ==
    LET path == candidate(l, f)
        init == os_path_join2(path, init_py)
    IN  IF os_path_isdir(d, path)
        THEN (IF os_path_exists(d, init) THEN init ELSE path \o <<"/">>)
        ELSE path \o py

\* a loader that returns the path without checking that it exists
get_filename_unchecked(l, f, d) == [kind |-> "path", value |-> located(l, f, d)]

get_filename_result(l, f, d) ==
    LET path == located(l, f, d)
    IN  IF ~os_path_exists(d, path)
        THEN [kind |-> "raise", value |-> "ImportError"]
        ELSE [kind |-> "path", value |-> path]

-----------------------------------------------------------------------------
(* The text of a source file and RedBaron's tree of it.                     *)
(* A statement of the text is [type, module, items]:                        *)
(*   "import":      items is the sequence of its [value, target], a dotted  *)
(*                  name and its alias ("" when there is none);             *)
(*   "from_import": module is the dotted module (FromImportNode.value),     *)
(*                  items the imported names (FromImportNode.targets);      *)
(*   "other":       any other statement; "invalid": text that does not parse*)

Item(value, target) == [value |-> value, target |-> target]

Import(items) == [type |-> "import", module |-> empty, items |-> items]

FromImport(module, names) == [type |-> "from_import", module |-> module, items |-> names]

Other == [type |-> "other", module |-> empty, items |-> <<>>]

Invalid == [type |-> "invalid", module |-> empty, items |-> <<>>]

\* a DottedAsNameNode: value is the list of its NameNodes' values; id is the
\* identity of the node object (0 for a node the rewriting inserted)
DottedAsNameNode(id, value, target) == [id |-> id, value |-> value, target |-> target]

\* RedBaron(text) raises on text that is not Python
parses(text) == \A i \in DOMAIN text : text[i].type # "invalid"

\* baron's parse of one statement: a dotted name becomes its NameNodes
parse_statement(st) ==
    IF st.type = "import"
    THEN [st EXCEPT !.items =
            [i \in DOMAIN st.items |->
                DottedAsNameNode(i, split(st.items[i].value, "."), st.items[i].target)]]
    ELSE IF st.type = "from_import"
    THEN [st EXCEPT !.module = split(st.module, ".")]
    ELSE st

RedBaron(text) == [i \in DOMAIN text |-> parse_statement(text[i])]

\* node.dumps(): the NameNodes' values joined by dots
dumps_statement(node) ==
    IF node.type = "import"
    THEN [node EXCEPT !.items =
            [i \in DOMAIN node.items |->
                Item(join(".", node.items[i].value), node.items[i].target)]]
    ELSE IF node.type = "from_import"
    THEN [node EXCEPT !.module = join(".", node.module)]
    ELSE node

dumps(ast) == [i \in DOMAIN ast |-> dumps_statement(ast[i])]

-----------------------------------------------------------------------------
(* PrefixedImportSourceLoader.get_data: the rewriting of the tree *)

\* node.index_on_parent: where the node object of identity k stands in the list
index_on_parent(nodes, k) == CHOOSE i \in DOMAIN nodes : nodes[i].id = k

\* list.insert before position i
insert(nodes, i, node) ==
    SubSeq(nodes, 1, i - 1) \o <<node>> \o SubSeq(nodes, i, Len(nodes))

\* dotted_as.insert_after(value): the parsed value lands right after dotted_as
insert_after(nodes, k, node) == insert(nodes, index_on_parent(nodes, k) + 1, node)

\* dotted_as.parent.remove(dotted_as)
remove(nodes, k) ==
    LET i == index_on_parent(nodes, k)
    IN  SubSeq(nodes, 1, i - 1) \o SubSeq(nodes, i + 1, Len(nodes))

\* a loader that takes every root for a local one
is_local_always(l, root) == TRUE

\* whether the root of a dotted name is provided locally
is_local(l, root) == root \in l.local_globals

\* a loader that qualifies with the namespace prefix alone, without the root
qualify_ext(l, first) == l.ext_prefix \o first

\* the name that replaces the first NameNode's value
qualify(l, first) == l.whole_prefix \o first

\* the item "<whole_prefix><root> as <root>" as RedBaron parses it
synthetic(l, root) ==
    DottedAsNameNode(0, split(l.whole_prefix \o root, "."), root)

\* the body of the loop over the items of an ImportNode, for the item of
\* identity k
rewrite_dotted_as(l, nodes, k) ==
    LET pos          == index_on_parent(nodes, k)
        dotted_as    == nodes[pos]
        root         == dotted_as.value[1]
        n_components == Len(dotted_as.value)
        prefixed     == [nodes EXCEPT ![pos].value[1] = qualify(l, root)]
        inserted     == insert_after(prefixed, k, synthetic(l, root))
    IN  IF ~is_local(l, root) THEN nodes
        ELSE IF dotted_as.target # empty THEN prefixed
        ELSE IF n_components = 1 THEN remove(inserted, k)
        ELSE inserted

\* for dotted_as in list(node): the items the node had when the loop began
RECURSIVE rewrite_import(_, _, _, _)
rewrite_import(l, nodes, k, n) ==
    IF k > n THEN nodes
    ELSE rewrite_import(l, rewrite_dotted_as(l, nodes, k), k + 1, n)

\* the body of the loop over the FromImportNodes
rewrite_from_import(l, value) ==
    IF is_local(l, value[1])
    THEN [value EXCEPT ![1] = qualify(l, value[1])]
    ELSE value

rewrite_node(l, node) ==
    IF node.type = "import"
    THEN [node EXCEPT !.items = rewrite_import(l, node.items, 1, Len(node.items))]
    ELSE IF node.type = "from_import"
    THEN [node EXCEPT !.module = rewrite_from_import(l, node.module)]
    ELSE node

\* the value of changed after the two loops
changed_by(l, ast) ==
    \E i \in DOMAIN ast :
        \/ /\ ast[i].type = "import"
           /\ \E j \in DOMAIN ast[i].items : is_local(l, ast[i].items[j].value[1])
        \/ /\ ast[i].type = "from_import"
           /\ is_local(l, ast[i].module[1])

\* parse, rewrite and dump a text: the code and the changed flag
rewritten(l, text) ==
    LET ast == RedBaron(text)
    IN  [code    |-> dumps([i \in DOMAIN ast |-> rewrite_node(l, ast[i])]),
         changed |-> changed_by(l, ast)]

\* a loader that writes back whatever the rewrite flag says
writes_back_any(l, changed) == changed

\* whether get_data writes the code back to the file
writes_back(l, changed) == l.rewrite /\ changed

\* get_data(path): what it returns or raises, and whether it writes the file
get_data_result(l, path, d) ==
    IF ~endswith(path, py)
    THEN [kind |-> "code", value |-> <<>>, changed |-> FALSE, write |-> FALSE]
    ELSE IF Norm(path) \notin DOMAIN d
    THEN [kind |-> "raise", value |-> "FileNotFoundError", changed |-> FALSE, write |-> FALSE]
    ELSE IF d[Norm(path)].kind = "dir"
    THEN [kind |-> "raise", value |-> "IsADirectoryError", changed |-> FALSE, write |-> FALSE]
    ELSE IF ~parses(d[path].data)
    THEN [kind |-> "raise", value |-> "ParsingError", changed |-> FALSE, write |-> FALSE]
    ELSE LET r == rewritten(l, d[path].data)
         IN  [kind |-> "code", value |-> r.code, changed |-> r.changed,
              write |-> writes_back(l, r.changed)]

-----------------------------------------------------------------------------
(* Execution of a module body by the host: what its import statements bind *)
(* and which modules they make the host import.                             *)

Module(m) == [module |-> m, attr |-> empty]

Attr(m, a) == [module |-> m, attr |-> a]

bind(ns, name, ref) == (name :> ref) @@ ns

\* import a.b.c binds a to the top module a; import a.b.c as x binds x to a.b.c
RECURSIVE exec_import(_, _)
exec_import(ns, items) ==
    IF Len(items) = 0 THEN ns
    ELSE LET it   == items[1]
             top  == split(it.value, ".")[1]
             next == IF it.target = empty
                     THEN bind(ns, top, Module(top))
                     ELSE bind(ns, it.target, Module(it.value))
         IN  exec_import(next, Tail(items))

\* from m import n as k binds k (n when there is no alias) to m's attribute n
RECURSIVE exec_from_import(_, _, _)
exec_from_import(ns, module, names) ==
    IF Len(names) = 0 THEN ns
    ELSE LET nm == names[1]
             to == IF nm.target = empty THEN nm.value ELSE nm.target
         IN  exec_from_import(bind(ns, to, Attr(module, nm.value)), module, Tail(names))

exec_statement(ns, st) ==
    IF st.type = "import" THEN exec_import(ns, st.items)
    ELSE IF st.type = "from_import" THEN exec_from_import(ns, st.module, st.items)
    ELSE ns

RECURSIVE exec_code(_, _)
exec_code(ns, code) ==
    IF Len(code) = 0 THEN ns
    ELSE exec_code(exec_statement(ns, code[1]), Tail(code))

NoNames == [n \in {} |-> Module(empty)]

\* a dotted name and the packages above it, which the host imports first
parents(dotted) ==
    LET c == split(dotted, ".")
    IN  { join(".", SubSeq(c, 1, k)) : k \in 1..Len(c) }

\* the modules the statements of a text import
modules_of(st) ==
    IF st.type = "import" THEN { st.items[i].value : i \in DOMAIN st.items }
    ELSE IF st.type = "from_import" THEN { st.module }
    ELSE {}

imported(code) ==
    UNION { parents(m) : m \in UNION { modules_of(code[i]) : i \in DOMAIN code } }

-----------------------------------------------------------------------------
(* Names and disks *)

\* the namespace name the finder is registered for
ext == <<"e", "x">>

\* the fixture's names, abbreviated
root_external == <<"r">>

some_package == <<"p">>

main == <<"m">>

submodule == <<"s">>

other_submodule == <<"o">>

deep == <<"d">>

name == <<"n">>

root_name == <<"r", "n">>

deep_name == <<"d", "n">>

deep_n == <<"d", "2">>

\* src/root_external/some_package/main.py
main_py ==
    << Import(<< Item(submodule, empty),
                 Item(join(".", <<other_submodule, deep>>), empty) >>),
       Other,
       Other,
       FromImport(submodule, << Item(name, root_name) >>),
       FromImport(other_submodule, << Item(deep, empty) >>),
       FromImport(join(".", <<other_submodule, deep>>),
                  << Item(name, deep_name), Item(name, deep_n) >>),
       Other,
       Other >>

\* the directory the finder is given
base == <<"b">>

At(parts) == os_path_join(base, parts)

\* the fixture: root_external with submodule.py, other_submodule/deep.py and
\* some_package/main.py
Fixture ==
    (base :> Dir)
    @@ (At(<<root_external>>) :> Dir)
    @@ (At(<<root_external, submodule \o py>>) :> File(<<Other>>))
    @@ (At(<<root_external, other_submodule>>) :> Dir)
    @@ (At(<<root_external, other_submodule, init_py>>) :> File(<<>>))
    @@ (At(<<root_external, other_submodule, deep \o py>>) :> File(<<Other>>))
    @@ (At(<<root_external, some_package>>) :> Dir)
    @@ (At(<<root_external, some_package, main \o py>>) :> File(main_py))

\* names of the further entries of the second disk
bad == <<"k">>

plain == <<"f">>

notes == <<"t", ".", "t", "x", "t">>

odd == <<"g">>

missing == <<"q">>

\* the fixture with, beside it: a directory submodule without a marker next to
\* submodule.py, a file that does not parse, a text file, a directory named
\* like a source file, and a plain file directly under the base directory
Crowded ==
    Fixture
    @@ (At(<<root_external, submodule>>) :> Dir)
    @@ (At(<<root_external, bad \o py>>) :> File(<<Import(<<Item(submodule, empty)>>), Invalid>>))
    @@ (At(<<root_external, notes>>) :> File(<<>>))
    @@ (At(<<root_external, odd \o py>>) :> Dir)
    @@ (At(<<plain>>) :> File(<<>>))

Layouts == {Fixture, Crowded}

Dotted(parts) == join(".", parts)

\* the names the program imports at top level
Requests ==
    { ext,
      ext \o root_external,
      Dotted(<<root_external, submodule>>),
      Dotted(<<ext, root_external>>),
      Dotted(<<ext, root_external, submodule>>),
      Dotted(<<ext, root_external, other_submodule>>),
      Dotted(<<ext, root_external, other_submodule, deep>>),
      Dotted(<<ext, root_external, some_package>>),
      Dotted(<<ext, root_external, some_package, main>>),
      Dotted(<<ext, root_external, missing>>),
      Dotted(<<ext, root_external, bad>>),
      Dotted(<<ext, root_external, odd>>),
      Dotted(<<ext, missing>>),
      Dotted(<<ext, missing, submodule>>),
      Dotted(<<ext, plain>>) }

-----------------------------------------------------------------------------
(* Source files drawn from bounded sets, for the rewriting *)

MaxTargets == 2

MaxNameLen == 12

local_a == <<"a">>

sub == <<"u">>

foreign == <<"z">>

alias == <<"k">>

DottedNames ==
    { local_a, local_a \o <<".">> \o sub, ext, foreign }

Targets == { Item(d, t) : d \in DottedNames, t \in {empty, alias} }

ImportStatements ==
    { Import(items) : items \in UNION { [1..n -> Targets] : n \in 1..MaxTargets } }

Sources ==
    { <<st>> : st \in ImportStatements }
    \cup { <<FromImport(d, <<Item(name, t)>>)>> : d \in DottedNames, t \in {empty, alias} }
    \cup { <<Other, Import(<<it>>), FromImport(d, <<Item(name, empty)>>)>> :
             it \in Targets, d \in {local_a, foreign} }

\* a root directory holding main.py with the given text and a.py, and ex.py
\* (a local module named like the namespace) when clash
Workbench(text, clash) ==
    (base :> Dir)
    @@ (At(<<root_external>>) :> Dir)
    @@ (At(<<root_external, main \o py>>) :> File(text))
    @@ (At(<<root_external, local_a \o py>>) :> File(<<Other>>))
    @@ (IF clash THEN (At(<<root_external, ext \o py>>) :> File(<<Other>>))
        ELSE [q \in {} |-> Dir])

-----------------------------------------------------------------------------
(* The state machine *)

NoResult == [op |-> "", kind |-> "none", value |-> empty, changed |-> FALSE, write |-> FALSE]

Start(fd, d, asked) ==
    /\ finder = fd
    /\ local_submodules = [r \in {} |-> {}]
    /\ disk = d
    /\ listed = [r \in {} |-> 0]
    /\ pending = asked
    /\ pc = "idle"
    /\ fullname = empty
    /\ loader = NoLoader
    /\ result = NoResult
    /\ source = <<>>
    /\ namespace = NoNames

Init ==
    \E d \in Layouts, rw \in BOOLEAN, path \in {base, os_path_join2(base, main \o py)} :
        Start(ExternalPathFinder(ext, path, rw), d, Requests)

InitRewrite ==
    \E text \in Sources, clash \in BOOLEAN, rw \in BOOLEAN :
        Start(ExternalPathFinder(ext, base, rw), Workbench(text, clash),
              { Dotted(<<ext, root_external, main>>) })

\* the host asks the finder for the spec of a name
find_spec(f) ==
    /\ pc = "idle"
    /\ LET r == find_spec_result(finder, local_submodules, listed, disk, f)
       IN  /\ local_submodules' = r.cache
           /\ listed' = r.listed
           /\ result' = [op |-> "find_spec", kind |-> r.kind, value |-> r.value,
                         changed |-> FALSE, write |-> FALSE]
           /\ loader' = IF r.kind = "spec" THEN r.value.loader ELSE NoLoader
           /\ pc' = IF r.kind = "spec" THEN "found" ELSE "idle"
    /\ fullname' = f
    /\ UNCHANGED <<finder, disk, pending, source, namespace>>

\* the host asks the spec's loader for the file of the module
get_filename ==
    /\ pc = "found"
    /\ LET r == get_filename_result(loader, fullname, disk)
       IN  /\ result' = [op |-> "get_filename", kind |-> r.kind, value |-> r.value,
                         changed |-> FALSE, write |-> FALSE]
           /\ pc' = IF r.kind = "path" THEN "located" ELSE "idle"
    /\ UNCHANGED <<finder, local_submodules, disk, listed, pending, fullname,
                   loader, source, namespace>>

\* the names of a text are short enough for one more rewriting
within(text) ==
    \A i \in DOMAIN text :
        /\ text[i].type = "import" =>
              \A j \in DOMAIN text[i].items : Len(text[i].items[j].value) <= MaxNameLen
        /\ text[i].type = "from_import" => Len(text[i].module) <= MaxNameLen

\* the host asks the loader for the source at the path get_filename gave
get_data ==
    /\ pc = "located"
    /\ LET path == result.value
           r    == get_data_result(loader, path, disk)
           read == IF Norm(path) \in DOMAIN disk THEN disk[Norm(path)].data ELSE <<>>
       IN  /\ within(read)
           /\ result' = [op |-> "get_data", kind |-> r.kind, value |-> r.value,
                         changed |-> r.changed, write |-> r.write]
           /\ disk' = IF r.write THEN [disk EXCEPT ![path] = File(r.value)] ELSE disk
           /\ source' = read
           /\ pc' = IF r.kind = "code" THEN "loaded" ELSE "idle"
    /\ UNCHANGED <<finder, local_submodules, listed, pending, fullname, loader,
                   namespace>>

\* the host executes the code as the module's body; its imports are asked next
exec_module ==
    /\ pc = "loaded"
    /\ namespace' = exec_code(NoNames, result.value)
    /\ pending' = pending \cup imported(result.value)
    /\ pc' = "idle"
    /\ UNCHANGED <<finder, local_submodules, disk, listed, fullname, loader,
                   result, source>>

Next ==
    \/ \E f \in pending : find_spec(f)
    \/ get_filename
    \/ get_data
    \/ exec_module

Spec == Init /\ [][Next]_vars

RewriteSpec == InitRewrite /\ [][Next]_vars

-----------------------------------------------------------------------------
(* Properties *)

\* get_data has returned code for the module f, and its body has run
Loaded(f) ==
    /\ pc = "idle"
    /\ result.op = "get_data"
    /\ result.kind = "code"
    /\ fullname = f

\* get_data has just returned the code of a text it read
Rewrote == result.op = "get_data" /\ result.kind = "code"

root_of(dotted) == split(dotted, ".")[1]

\* C1: rewriting the code get_data returned, with the same loader, gives that
\* code again and reports no change (so that a second load writes nothing).
Idempotent ==
    Rewrote =>
        LET again == rewritten(loader, result.value)
        IN  /\ again.code = result.value
            /\ ~again.changed

\* the reference a name has after the rewriting, given the one it had before
Qualified(l, ref) ==
    IF root_of(ref.module) \in l.local_globals
    THEN [ref EXCEPT !.module = l.whole_prefix \o ref.module]
    ELSE ref

\* C2: each import statement binds, after the rewriting, exactly the names it
\* bound before, every one of them to the prefix-qualified counterpart of the
\* module it was bound to.
NamePreserved ==
    Rewrote =>
        \A i \in DOMAIN source :
            source[i].type = "import" =>
                LET before == exec_import(NoNames, source[i].items)
                    after  == exec_import(NoNames, result.value[i].items)
                IN  /\ DOMAIN after = DOMAIN before
                    /\ \A n \in DOMAIN before :
                          n \in DOMAIN after => after[n] = Qualified(loader, before[n])

\* no file or directory of the disk answers to the name f
Miss(l, f, d) ==
    LET path == os_path_join(l.base_path, split(DropFirst(f, Len(l.ext_prefix)), "."))
    IN  /\ ~os_path_isdir(d, path)
        /\ ~os_path_exists(d, path \o py)

\* C3: get_filename raises ImportError for a name whose path does not exist,
\* and the import never goes on to a path or to a module body for such a name.
ResolutionMiss ==
    /\ (result.op = "get_filename" /\ Miss(loader, fullname, disk)) =>
          /\ result.kind = "raise"
          /\ result.value = "ImportError"
          /\ pc = "idle"
    /\ pc \in {"located", "loaded"} => ~Miss(loader, fullname, disk)

ResolutionMissWitness ==
    /\ result.op = "get_filename"
    /\ result.kind = "raise"
    /\ fullname = Dotted(<<ext, root_external, missing>>)

NonLocal(l, dotted) == root_of(dotted) \notin l.local_globals

\* the items the rewriting inserts before item j of a statement: one for each
\* earlier local item without alias and with several components
inserted_before(l, items, j) ==
    Cardinality({ k \in 1..(j - 1) :
                    /\ ~NonLocal(l, items[k].value)
                    /\ items[k].target = empty
                    /\ Len(split(items[k].value, ".")) > 1 })

\* C4: an import item or a from-import whose root is not a local name is in the
\* code as it was in the text, in the same statement and in the same order
\* among the items of the text; a text with only such imports is returned as
\* it is, reported unchanged and not written.
NonLocalUntouched ==
    Rewrote =>
        /\ Len(result.value) = Len(source)
        /\ \A i \in DOMAIN source :
              /\ result.value[i].type = source[i].type
              /\ (source[i].type = "from_import" /\ NonLocal(loader, source[i].module))
                    => result.value[i] = source[i]
              /\ source[i].type = "import" =>
                    \A j \in DOMAIN source[i].items :
                        NonLocal(loader, source[i].items[j].value) =>
                            LET to == j + inserted_before(loader, source[i].items, j)
                            IN  /\ to \in DOMAIN result.value[i].items
                                /\ result.value[i].items[to] = source[i].items[j]
        /\ (\A m \in UNION { modules_of(source[i]) : i \in DOMAIN source } :
                NonLocal(loader, m))
              => /\ result.value = source
                 /\ ~result.changed
                 /\ ~result.write

NonLocalUntouchedWitness ==
    /\ Rewrote
    /\ source = << Import(<< Item(local_a \o <<".">> \o sub, empty),
                             Item(foreign, alias) >>) >>
    /\ result.value[1].items[3] = Item(foreign, alias)

\* C5: once the names of a root are cached they stay as they are, the root's
\* directory is not listed again, and no directory is listed more than once.
CacheComputedOnce ==
    [][ /\ \A r \in DOMAIN listed' : listed'[r] <= 1
        /\ \A r \in DOMAIN local_submodules :
              /\ r \in DOMAIN local_submodules'
              /\ local_submodules'[r] = local_submodules[r]
              /\ listed'[r] = listed[r] ]_vars

CacheComputedOnceWitness ==
    /\ pc = "found"
    /\ fullname = Dotted(<<ext, root_external, other_submodule, deep>>)
    /\ submodule \in DOMAIN namespace
    /\ root_external \in DOMAIN listed
    /\ listed[root_external] = 1

whole == ext \o <<".">> \o root_external \o <<".">>

\* C6: the body of some_package.main imports only names under the full prefix
\* ext.root_external., each of which the same finder resolves with the same
\* root to a path of the disk, and ends with submodule, other_submodule and the
\* from-imported names bound to root_external's modules and their attributes.
EndToEnd ==
    Loaded(Dotted(<<ext, root_external, some_package, main>>)) =>
        /\ \A m \in UNION { modules_of(result.value[i]) : i \in DOMAIN result.value } :
              /\ startswith(m, whole)
              /\ startswith(m, finder.prefix)
              /\ components_of(m, finder.prefix)[1] = root_external
              /\ LET r == find_spec_result(finder, local_submodules, listed, disk, m)
                 IN  /\ r.kind = "spec"
                     /\ r.value.loader = loader
                     /\ get_filename_result(r.value.loader, m, disk).kind = "path"
        /\ whole \o other_submodule \o <<".">> \o deep \in imported(result.value)
        /\ {submodule, other_submodule, root_name, deep, deep_name, deep_n}
              \subseteq DOMAIN namespace
        /\ namespace[submodule] = Module(whole \o submodule)
        /\ namespace[other_submodule] = Module(whole \o other_submodule)
        /\ namespace[root_name] = Attr(whole \o submodule, name)
        /\ namespace[deep] = Attr(whole \o other_submodule, deep)
        /\ namespace[deep_name] = Attr(whole \o other_submodule \o <<".">> \o deep, name)
        /\ namespace[deep_n] = Attr(whole \o other_submodule \o <<".">> \o deep, name)

EndToEndWitness ==
    /\ Loaded(Dotted(<<ext, root_external, some_package, main>>))
    /\ submodule \in DOMAIN namespace
    /\ result.changed

\* C7: find_spec returns a package spec bound to a loader for every name under
\* the prefix, whatever the disk holds.
ResolverNeverRaises ==
    (result.op = "find_spec" /\ startswith(fullname, finder.name \o <<".">>)) =>
        /\ result.kind = "spec"
        /\ result.value.is_package

\* C8: no step creates or deletes a path; a file's content changes only in a
\* get_data of a loader in rewrite mode that changed an import, and then it
\* becomes the code returned; such a get_data does write the file.
WriteBackFrame ==
    [][ /\ DOMAIN disk' = DOMAIN disk
        /\ \A p \in DOMAIN disk :
              disk'[p] # disk[p] =>
                  /\ pc = "located"
                  /\ p = result.value
                  /\ loader.rewrite
                  /\ result'.kind = "code"
                  /\ result'.changed
                  /\ disk'[p] = File(result'.value)
        /\ (pc = "located" /\ result'.op = "get_data" /\ result'.kind = "code"
              /\ loader.rewrite /\ result'.changed)
              => disk'[result.value] = File(result'.value) ]_vars

WriteBackFrameWitness ==
    /\ Rewrote
    /\ result.write
    /\ fullname = Dotted(<<ext, root_external, some_package, main>>)
    /\ disk[At(<<root_external, some_package, main \o py>>)] = File(result.value)
    /\ result.value # main_py

\* C9: for a name that does not start with the namespace name and a dot,
\* find_spec returns None, lists nothing and leaves the cache as it is.
NoOpinionOutside ==
    [][ (pc = "idle" /\ ~startswith(fullname', finder.name \o <<".">>)) =>
            /\ result'.kind = "none"
            /\ pc' = "idle"
            /\ local_submodules' = local_submodules
            /\ listed' = listed ]_vars

NoOpinionOutsideWitness ==
    /\ result.op = "find_spec"
    /\ result.kind = "none"
    /\ fullname = ext \o root_external
    /\ root_external \in DOMAIN local_submodules

\* C10: get_filename joins the components after the prefix onto the base
\* directory; for a directory it returns the __init__.py inside it when there
\* is one and else the directory with a trailing separator, whether or not a
\* source file of the same name lies beside it; for anything else it returns
\* only the path with .py appended.
PathPrecedence ==
    result.op = "get_filename" =>
        LET path == os_path_join(finder.base_path,
                                 split(DropFirst(fullname, Len(finder.name) + 1), "."))
            init == path \o <<"/">> \o init_py
        IN  IF Norm(path) \in DOMAIN disk /\ disk[Norm(path)].kind = "dir"
            THEN /\ result.kind = "path"
                 /\ result.value = IF init \in DOMAIN disk THEN init ELSE path \o <<"/">>
            ELSE result.kind = "path" => result.value = path \o py

PathPrecedenceWitness ==
    /\ result.op = "get_filename"
    /\ fullname = Dotted(<<ext, root_external, submodule>>)
    /\ At(<<root_external, submodule \o py>>) \in DOMAIN disk
    /\ result.kind = "path"
    /\ result.value = At(<<root_external, submodule>>) \o <<"/">>

====
